---- MODULE Spec2Model ----
(***************************************************************************)
(* The package store of etamponi/package-store: the fetch coordinator      *)
(* (src/src/fetch.ts: resolveAndFetch, fetchToStore, doFetchToStore), the  *)
(* fetcher registry (src/unnamed/part_000: fetcher) and the HTTP client's  *)
(* download (src/unnamed/part_001: download, fetch, waitTillClosed).       *)
(***************************************************************************)
EXTENDS Integers, Sequences, FiniteSets, TLC

\* ------------------------------------------------------------------ bounds
\* package identities that resolvers may produce
NumIds == 1
\* resolveAndFetch calls made on one fetchingLocker
NCalls == 2
\* fetchingLocker maps used one after the other on the same store instance
MaxLockers == 2
\* operations that fail (a resolver, a fetcher, a filesystem call), all lockers together
MaxFaults == 1

Ids == 1 .. NumIds
Calls == 1 .. NCalls
\* options.pkgId left out by the caller
NoId == 0

\* the files of the (one) content of a package
Files == {"package.json", "index.js"}
\* a file of a directory: missing, as unpacked, or modified after unpacking
FileStates == {"absent", "intact", "modified"}
EmptyDir == [f \in Files |-> "absent"]
FullDir == [f \in Files |-> "intact"]
IsEmpty(dir) == \A f \in Files : dir[f] = "absent"
IsComplete(dir) == \A f \in Files : dir[f] # "absent"
IsPartial(dir) == ~IsEmpty(dir) /\ ~IsComplete(dir)
IsUntouched(dir) == \A f \in Files : dir[f] = "intact"

\* resolution.type: absent (as in a tarball resolution), or a type by name
Absent == "absent"
ResolutionTypes == {Absent, "directory", "svn"}
\* opts.networkConcurrency as configured; 0 stands for absent
NetworkConcurrencyOpts == {0, 1, 2}
\* options.downloadPriority of the callers
DownloadPriorities == {0}

VARIABLES
    \* ---- the store instance (the closure of the default export)
    requestsQueue,     \* PQueue: counter, concurrency, pendingCount, queue
    taskState,         \* each task given to requestsQueue.add
    invocations,       \* how often each task's function (resolver, fetcher) ran
    priorityLog,       \* priorities of the fetch submissions, in order
    \* ---- the callers and the locker they share
    calls,             \* each resolveAndFetch call
    fetchingLocker,    \* identity -> {fetchingFiles, fetchingPkg, calculatingIntegrity}
    fetch,             \* each identity's doFetchToStore
    launches,          \* how often fetchToStore ran, per identity (on this locker)
    lockersUsed,
    faults,            \* operations that have failed so far
    earlier,           \* fetchingFiles of each identity on the locker used before
    \* ---- the store on disk and its index
    storeIndex,        \* options.storeIndex: the identities it records
    targetStage,       \* <target>_stage
    nodeModules,       \* <target>/node_modules/<pkgName>
    linkToUnpacked,    \* <target>/package is a symlink to node_modules/<pkgName>
    integrityJson,     \* <target>/integrity.json
    \* ---- one download of the HTTP client
    dl

storeVars == <<requestsQueue, taskState, invocations, priorityLog>>
runVars == <<lockersUsed, faults, earlier>>
callVars == <<calls, fetchingLocker, fetch, launches, runVars>>
diskVars == <<storeIndex, targetStage, nodeModules, linkToUnpacked, integrityJson>>
vars == <<storeVars, callVars, diskVars, dl>>

\* ------------------------------------------------------------------ the request queue
ResolveTask(c) == [kind |-> "resolve", who |-> c]
FetchTask(i) == [kind |-> "fetch", who |-> i]
Tasks == {ResolveTask(c) : c \in Calls} \cup {FetchTask(i) : i \in Ids}

DefaultConcurrency == 16

\* const networkConcurrency = opts.networkConcurrency || 16
NetworkConcurrency(opt) == IF opt = 0 THEN DefaultConcurrency ELSE opt

NewQueue(opt) ==
    [counter |-> 0, concurrency |-> NetworkConcurrency(opt),
     pendingCount |-> 0, queue |-> <<>>]

\* PriorityQueue.enqueue of p-queue: descending priority, first in first out
\* among equal priorities
RECURSIVE Enqueue(_, _)
Enqueue(q, e) ==
    IF q = <<>> THEN <<e>>
    ELSE IF Head(q).priority >= e.priority THEN <<Head(q)>> \o Enqueue(Tail(q), e)
    ELSE <<e>> \o q

\* variant: every task starts at once
RunsAtOnceAlways(rq) == TRUE

\* PQueue.add starts the task at once while fewer than `concurrency` are pending
RunsAtOnce(rq) == rq.pendingCount < rq.concurrency

QueueAdd(rq, t, priority) ==
    IF RunsAtOnce(rq)
    THEN [rq EXCEPT !.pendingCount = @ + 1]
    ELSE [rq EXCEPT !.queue = Enqueue(@, [task |-> t, priority |-> priority])]

\* PQueue._next, run when a task settles: the slot goes to the head of the queue
QueueNext(rq) ==
    IF rq.queue = <<>>
    THEN [rq EXCEPT !.pendingCount = @ - 1]
    ELSE [rq EXCEPT !.queue = Tail(@)]

\* createFetcher([createTarballFetcher, git]): the types a fetcher is registered for
FetcherTypes == {"tarball", "git"}

\* variant: no default for an absent type
DispatchKeyStrict(type) == type

\* fetcherByHostingType[resolution.type || 'tarball']
DispatchKey(type) == IF type = Absent THEN "tarball" ELSE type

\* fetcher() of the fetcher registry: whether a fetcher is found for the type
HasFetcher(type) == DispatchKey(type) \in FetcherTypes

\* the function of a started task runs: a resolver always, a fetcher when the
\* registry finds one for the resolution's type
Invoked(t) ==
    IF t.kind = "resolve" THEN TRUE ELSE HasFetcher(fetch[t.who].type)

\* variant: the signs of the two priorities exchanged
FetchPriorityInverted(counter, concurrency) ==
    (IF counter % concurrency = 0 THEN 1 ELSE -1) * 1000

\* (++counter % concurrency === 0 ? -1 : 1) * 1000, counter already incremented
FetchPriority(counter, concurrency) ==
    (IF counter % concurrency = 0 THEN -1 ELSE 1) * 1000

\* ------------------------------------------------------------------ deferred promises
\* differed<T>(): a pending promise with its resolve and reject
Differed == [state |-> "pending", isNew |-> FALSE, index |-> "none"]

\* resolve and reject of a promise settle it once; later calls change nothing
Resolve(p, isNew, index) ==
    IF p.state = "pending"
    THEN [state |-> "resolved", isNew |-> isNew, index |-> index]
    ELSE p

\* variant: reject changes a promise that is settled too
RejectSettled(p) == [p EXCEPT !.state = "rejected"]

Reject(p) ==
    IF p.state = "pending" THEN [p EXCEPT !.state = "rejected"] ELSE p

Settled(p) == p.state # "pending"

\* ------------------------------------------------------------------ resolutions
NoResolution == [type |-> "none", from |-> "none"]
ShrinkwrapResolution(type) == [type |-> type, from |-> "shrinkwrap"]
ResolverResolution(type) == [type |-> type, from |-> "resolver"]
\* target = path.join(options.storePath, pkgIdToFilename(id)); a local handle has
\* no path
NoPath == [storePath |-> "none", targetRelative |-> NoId]
Target(id) == [storePath |-> "storePath", targetRelative |-> id]
NoHandle == [isLocal |-> FALSE, id |-> NoId, resolution |-> NoResolution, path |-> NoPath]
Handle(isLocal, id, resolution) ==
    [isLocal |-> isLocal, id |-> id, resolution |-> resolution,
     path |-> IF isLocal THEN NoPath ELSE Target(id)]

\* a call with its options, the handle it returned or the error it threw, and
\* the statuses it gave to progressLogger.debug
IdleCall ==
    [pc |-> "idle", shrinkwrapResolution |-> NoResolution, update |-> FALSE,
     pkgId |-> NoId, handle |-> NoHandle, error |-> "none", logged |-> {}]

\* what the disk held for an identity when its doFetchToStore started
NoEntryFacts ==
    [recorded |-> FALSE, manifest |-> FALSE, untouched |-> FALSE, integrity |-> "none"]

NoFetch ==
    [pc |-> "none", pkg |-> FALSE, verifyStoreIntegrity |-> FALSE, type |-> "none",
     targetExists |-> FALSE, integrityWriter |-> "none", readingPkg |-> "none",
     failedAt |-> "none", atLaunch |-> NoEntryFacts, logged |-> {}]

\* exists(path.join(linkToUnpacked, 'package.json')): through the symlink
ManifestExists(i) == linkToUnpacked[i] /\ nodeModules[i]["package.json"] # "absent"

EntryFacts(i) ==
    [recorded |-> i \in storeIndex, manifest |-> ManifestExists(i),
     untouched |-> IsUntouched(nodeModules[i]), integrity |-> integrityJson[i]]

\* ------------------------------------------------------------------ initial state
\* a new store instance on an empty store, nothing called yet
InitCoordinator ==
    /\ requestsQueue \in {NewQueue(opt) : opt \in NetworkConcurrencyOpts}
    /\ taskState = [t \in Tasks |-> "none"]
    /\ invocations = [t \in Tasks |-> 0]
    /\ priorityLog = <<>>
    /\ calls = [c \in Calls |-> IdleCall]
    /\ fetchingLocker = << >>
    /\ fetch = [i \in Ids |-> NoFetch]
    /\ launches = [i \in Ids |-> 0]
    /\ lockersUsed = 1
    /\ faults = 0
    /\ earlier = [i \in Ids |-> Differed]
    /\ storeIndex = {}
    /\ targetStage = [i \in Ids |-> EmptyDir]
    /\ nodeModules = [i \in Ids |-> EmptyDir]
    /\ linkToUnpacked = [i \in Ids |-> FALSE]
    /\ integrityJson = [i \in Ids |-> "none"]

\* ------------------------------------------------------------------ failures
\* one more operation fails
Fault ==
    /\ faults < MaxFaults
    /\ faults' = faults + 1

\* ------------------------------------------------------------------ tasks of the queue
\* requestsQueue.add(fn, {priority}) on the queue rq
SubmitTask(rq, t, priority) ==
    /\ requestsQueue' = QueueAdd(rq, t, priority)
    /\ taskState' = [taskState EXCEPT ![t] = IF RunsAtOnce(rq) THEN "running" ELSE "queued"]
    /\ invocations' =
        [invocations EXCEPT ![t] = IF RunsAtOnce(rq) /\ Invoked(t) THEN @ + 1 ELSE @]

\* the task that _next takes from the queue and starts
Started(rq) == IF rq.queue = <<>> THEN {} ELSE {Head(rq.queue).task}

\* fn().then(val => {resolve(val); this._next()}, err => {reject(err); this._next()})
SettleTask(t, result) ==
    /\ requestsQueue' = QueueNext(requestsQueue)
    /\ taskState' =
        [u \in Tasks |->
            IF u = t THEN result
            ELSE IF u \in Started(requestsQueue) THEN "running"
            ELSE taskState[u]]
    /\ invocations' =
        [u \in Tasks |->
            IF u \in Started(requestsQueue) /\ Invoked(u)
            THEN invocations[u] + 1
            ELSE invocations[u]]

\* ------------------------------------------------------------------ resolveAndFetch
\* variant: an entry whose fetchingFiles is rejected counts as a miss
LockerMissOrRejected(id) ==
    \/ id \notin DOMAIN fetchingLocker
    \/ fetchingLocker[id].fetchingFiles.state = "rejected"

\* variant: the locker is not consulted
LockerNotConsulted(id) == TRUE

\* !options.fetchingLocker[id]
LockerMiss(id) == id \notin DOMAIN fetchingLocker

\* what fetchToStore returns: fetchingPkg is Promise.resolve(opts.pkg) when the
\* caller has the manifest
NewEntry(pkg) ==
    [fetchingFiles |-> Differed,
     fetchingPkg |-> IF pkg THEN Resolve(Differed, FALSE, "none") ELSE Differed,
     calculatingIntegrity |-> Differed]

\* variant: exists() is awaited whatever the index records
FirstAwaitProbes(id) == "probe"

\* doFetchToStore up to its first await: exists() is awaited only when the
\* index records the entry, otherwise the first await is rimraf(targetStage)
FirstAwait(id) == IF id \in storeIndex THEN "probe" ELSE "stageReset"

\* fetchToStore(opts): the three deferreds, then doFetchToStore() runs to its
\* first await
FetchToStore(id, resolution, pkg, verifyStoreIntegrity) ==
    /\ fetchingLocker' = (id :> NewEntry(pkg)) @@ fetchingLocker
    /\ fetch' = [fetch EXCEPT ![id] =
            [NoFetch EXCEPT !.pc = FirstAwait(id), !.pkg = pkg,
                            !.logged = {"resolving_content"},
                            !.verifyStoreIntegrity = verifyStoreIntegrity,
                            !.type = resolution.type,
                            !.atLaunch = EntryFacts(id)]]
    /\ launches' = [launches EXCEPT ![id] = @ + 1]

\* variant: a directory resolution is fetched like any other
ContinueFetching(c, call, id, resolution, pkg) ==
    /\ calls' = [calls EXCEPT ![c] =
            [call EXCEPT !.pc = "returned", !.logged = {"resolved"},
                !.handle = Handle(FALSE, id, resolution)]]
    /\ IF id \notin DOMAIN fetchingLocker
       THEN \E verifyStoreIntegrity \in BOOLEAN :
                FetchToStore(id, resolution, pkg, verifyStoreIntegrity)
       ELSE UNCHANGED <<fetchingLocker, fetch, launches>>

\* resolveAndFetch from `const id = pkgId` to its return, which runs without
\* suspension; call is c's record with its options
ContinueResolved(c, call, id, resolution, pkg) ==
    IF resolution.type = "directory"
    THEN /\ calls' = [calls EXCEPT ![c] =
                IF pkg
                THEN [call EXCEPT !.pc = "returned", !.logged = {"resolved"},
                        !.handle = Handle(TRUE, id, resolution)]
                ELSE [call EXCEPT !.pc = "thrown", !.error = "MissingManifest",
                        !.logged = {"resolved", "error"}]]
         /\ UNCHANGED <<fetchingLocker, fetch, launches>>
    ELSE /\ calls' = [calls EXCEPT ![c] =
                [call EXCEPT !.pc = "returned", !.logged = {"resolved"},
                    !.handle = Handle(FALSE, id, resolution)]]
         /\ IF LockerMiss(id)
            THEN \E verifyStoreIntegrity \in BOOLEAN :
                    FetchToStore(id, resolution, pkg, verifyStoreIntegrity)
            ELSE UNCHANGED <<fetchingLocker, fetch, launches>>

\* calls are made in the order of their numbers
MayStart(c) ==
    /\ calls[c].pc = "idle"
    /\ \A b \in Calls : b < c => calls[b].pc # "idle"

\* variant: the resolver is asked whatever the caller supplied
ResolverAlwaysAsked(shrinkwrapResolution, update) == TRUE

\* if (!resolution || options.update)
NeedsResolver(shrinkwrapResolution, update) ==
    shrinkwrapResolution = NoResolution \/ update

\* the options of a call: pkgId comes with shrinkwrapResolution, and update is
\* asked for a pinned dependency only
CallOptions ==
    {[IdleCall EXCEPT !.shrinkwrapResolution = sr, !.update = u, !.pkgId = id] :
        sr \in {NoResolution} \cup {ShrinkwrapResolution(t) : t \in ResolutionTypes},
        u \in BOOLEAN, id \in Ids \cup {NoId}}

ValidOptions(call) ==
    /\ call.shrinkwrapResolution # NoResolution <=> call.pkgId # NoId
    /\ call.update => call.shrinkwrapResolution # NoResolution

\* resolveAndFetch is called: it awaits requestsQueue.add(() => resolve(...),
\* {priority}) when it needs the resolver, and runs to its return otherwise
ResolveAndFetch(c) ==
    /\ MayStart(c)
    /\ \E call \in CallOptions, downloadPriority \in DownloadPriorities :
        /\ ValidOptions(call)
        /\ IF NeedsResolver(call.shrinkwrapResolution, call.update)
           THEN /\ calls' = [calls EXCEPT ![c] = [call EXCEPT !.pc = "resolving"]]
                /\ SubmitTask(requestsQueue, ResolveTask(c), downloadPriority)
                /\ UNCHANGED <<fetchingLocker, fetch, launches>>
           ELSE /\ ContinueResolved(c, call, call.pkgId, call.shrinkwrapResolution, FALSE)
                /\ UNCHANGED <<requestsQueue, taskState, invocations>>
    /\ UNCHANGED <<priorityLog, runVars, diskVars, dl>>

\* keep the shrinkwrap resolution when possible
KeptResolution(call, resolveResult) ==
    IF call.pkgId # resolveResult.id \/ call.shrinkwrapResolution = NoResolution
    THEN ResolverResolution(resolveResult.type)
    ELSE call.shrinkwrapResolution

\* the resolver returns {id, resolution, package?}: the queue goes on with its
\* next task and the call goes on after its await, up to its return
ResolverReturns(c) ==
    /\ taskState[ResolveTask(c)] = "running"
    /\ SettleTask(ResolveTask(c), "ok")
    /\ \E id \in Ids, type \in ResolutionTypes, package \in BOOLEAN :
        LET resolveResult == [id |-> id, type |-> type, package |-> package]
        IN ContinueResolved(c, calls[c], id, KeptResolution(calls[c], resolveResult),
                            package)
    /\ UNCHANGED <<priorityLog, runVars, diskVars, dl>>

\* the resolver throws: catch (err) { progressLogger.debug({status: 'error'}); throw err }
ResolverThrows(c) ==
    /\ taskState[ResolveTask(c)] = "running"
    /\ Fault
    /\ SettleTask(ResolveTask(c), "err")
    /\ calls' = [calls EXCEPT ![c].pc = "thrown", ![c].error = "resolver",
                              ![c].logged = {"error"}]
    /\ UNCHANGED <<priorityLog, fetchingLocker, fetch, launches, lockersUsed, earlier, diskVars, dl>>

\* ------------------------------------------------------------------ doFetchToStore
Entry(i) == fetchingLocker[i]
Launched(i) == i \in DOMAIN fetchingLocker

\* catch (err): fetchingFiles.reject(err); if (!opts.pkg) fetchingPkg.reject(err)
Catch(i) ==
    /\ fetchingLocker' = [fetchingLocker EXCEPT
            ![i].fetchingFiles = Reject(@),
            ![i].fetchingPkg = IF fetch[i].pkg THEN @ ELSE Reject(@)]
    /\ fetch' = [fetch EXCEPT ![i].pc = "done", ![i].failedAt = fetch[i].pc]

\* the awaited steps that may throw: untouched or loadJsonFile, rimraf,
\* readPkgFromDir, mkdirp and renameOverwrite (its rename and its rimraf),
\* symlinkDir
ThrowingSteps ==
    {"verify", "stageReset", "rmModules", "readPkg", "rename", "renameRimraf",
     "symlink"}

StepThrows(i) ==
    /\ fetch[i].pc \in ThrowingSteps
    /\ Fault
    /\ Catch(i)
    /\ UNCHANGED <<storeVars, calls, launches, lockersUsed, earlier, diskVars, dl>>

\* const targetExists = opts.storeIndex[opts.targetRelative] && await exists(...)
Probe(i) ==
    /\ fetch[i].pc = "probe"
    /\ fetch' = [fetch EXCEPT ![i].targetExists = ManifestExists(i),
                              ![i].pc = IF ManifestExists(i) THEN "verify" ELSE "stageReset"]
    /\ UNCHANGED <<storeVars, calls, fetchingLocker, launches, runVars, diskVars, dl>>

\* untouched(linkToUnpacked), the strict verifier: the recorded per-file index
\* when every file of the unpacked tree matches it, a falsy value otherwise
Untouched(i) ==
    IF integrityJson[i] = "integrity" /\ IsUntouched(nodeModules[i])
    THEN "integrity"
    ELSE "falsy"

\* loadJsonFile(integrity.json): what the file holds ("none": it throws)
LoadJsonFile(i) == integrityJson[i]

\* variant: integrity.json is trusted in strict mode too
SatisfiedIntegrityUnverified(i) == LoadJsonFile(i)

SatisfiedIntegrity(i) ==
    IF fetch[i].verifyStoreIntegrity THEN Untouched(i) ELSE LoadJsonFile(i)

\* if (satisfiedIntegrity): found in store
FoundInStore(i) ==
    /\ fetch[i].pc = "verify"
    /\ SatisfiedIntegrity(i) \notin {"falsy", "none"}
    /\ fetchingLocker' = [fetchingLocker EXCEPT
            ![i].fetchingFiles = Resolve(@, FALSE, SatisfiedIntegrity(i)),
            ![i].calculatingIntegrity = Resolve(@, FALSE, "none")]
    /\ fetch' = [fetch EXCEPT ![i].pc = "done",
                              ![i].logged = @ \cup {"found_in_store"},
                              ![i].readingPkg = IF fetch[i].pkg THEN "none" ELSE "reading"]
    /\ UNCHANGED <<storeVars, calls, launches, runVars, diskVars, dl>>

\* readPkgFromDir(linkToUnpacked).then(fetchingPkg.resolve).catch(fetchingPkg.reject)
FoundPkgRead(i) ==
    /\ fetch[i].readingPkg = "reading"
    /\ fetchingLocker' = [fetchingLocker EXCEPT ![i].fetchingPkg = Resolve(@, FALSE, "none")]
    /\ fetch' = [fetch EXCEPT ![i].readingPkg = "done"]
    /\ UNCHANGED <<storeVars, calls, launches, runVars, diskVars, dl>>

FoundPkgReadThrows(i) ==
    /\ fetch[i].readingPkg = "reading"
    /\ Fault
    /\ fetchingLocker' = [fetchingLocker EXCEPT ![i].fetchingPkg = Reject(@)]
    /\ fetch' = [fetch EXCEPT ![i].readingPkg = "done"]
    /\ UNCHANGED <<storeVars, calls, launches, lockersUsed, earlier, diskVars, dl>>

\* loadJsonFile throws when there is no integrity.json to read
LoadJsonFileThrows(i) ==
    /\ fetch[i].pc = "verify"
    /\ SatisfiedIntegrity(i) = "none"
    /\ Catch(i)
    /\ UNCHANGED <<storeVars, calls, launches, runVars, diskVars, dl>>

\* logger.warn(`Refetching ${target} to store, as it was modified`)
Refetching(i) ==
    /\ fetch[i].pc = "verify"
    /\ SatisfiedIntegrity(i) = "falsy"
    /\ fetch' = [fetch EXCEPT ![i].pc = "stageReset"]
    /\ UNCHANGED <<storeVars, calls, fetchingLocker, launches, runVars, diskVars, dl>>

\* rimraf(targetStage) unlinks one file
StageResetStep(i) ==
    /\ fetch[i].pc = "stageReset"
    /\ \E f \in Files :
        /\ targetStage[i][f] # "absent"
        /\ targetStage' = [targetStage EXCEPT ![i][f] = "absent"]
    /\ UNCHANGED <<storeVars, callVars, storeIndex, nodeModules, linkToUnpacked,
                   integrityJson, dl>>

\* ++opts.requestsQueue['counter']
NextCounter(counter) == counter + 1

\* rimraf(targetStage) is done: the fetch is given to the queue, and on the
\* refetch path rimraf(target/node_modules) is awaited next
StageResetDone(i) ==
    /\ fetch[i].pc = "stageReset"
    /\ IsEmpty(targetStage[i])
    /\ LET counter == NextCounter(requestsQueue.counter)
           priority == FetchPriority(counter, requestsQueue.concurrency)
       IN /\ SubmitTask([requestsQueue EXCEPT !.counter = counter], FetchTask(i), priority)
          /\ priorityLog' = Append(priorityLog, priority)
    /\ fetch' = [fetch EXCEPT ![i].pc =
                    IF fetch[i].targetExists THEN "rmModules" ELSE "awaitFetch"]
    /\ UNCHANGED <<calls, fetchingLocker, launches, runVars, diskVars, dl>>

\* rimraf(target/node_modules), and the rimraf of renameOverwrite, unlink one file
RimrafModulesStep(i) ==
    /\ fetch[i].pc \in {"rmModules", "renameRimraf"}
    /\ \E f \in Files :
        /\ nodeModules[i][f] # "absent"
        /\ nodeModules' = [nodeModules EXCEPT ![i][f] = "absent"]
    /\ UNCHANGED <<storeVars, callVars, storeIndex, targetStage, linkToUnpacked,
                   integrityJson, dl>>

RimrafModulesDone(i) ==
    /\ fetch[i].pc = "rmModules"
    /\ IsEmpty(nodeModules[i])
    /\ fetch' = [fetch EXCEPT ![i].pc = "awaitFetch"]
    /\ UNCHANGED <<storeVars, calls, fetchingLocker, launches, runVars, diskVars, dl>>

\* the fetcher unpacks one file into targetStage
FetcherUnpacks(i) ==
    /\ taskState[FetchTask(i)] = "running"
    /\ HasFetcher(fetch[i].type)
    /\ \E f \in Files :
        /\ targetStage[i][f] = "absent"
        /\ targetStage' = [targetStage EXCEPT ![i][f] = "intact"]
    /\ UNCHANGED <<storeVars, callVars, storeIndex, nodeModules, linkToUnpacked,
                   integrityJson, dl>>

\* the fetcher returns its index {headers, integrityPromise}
FetcherReturns(i) ==
    /\ taskState[FetchTask(i)] = "running"
    /\ HasFetcher(fetch[i].type)
    /\ IsComplete(targetStage[i])
    /\ SettleTask(FetchTask(i), "ok")
    /\ UNCHANGED <<priorityLog, callVars, diskVars, dl>>

\* the fetcher throws
FetcherThrows(i) ==
    /\ taskState[FetchTask(i)] = "running"
    /\ HasFetcher(fetch[i].type)
    /\ Fault
    /\ SettleTask(FetchTask(i), "err")
    /\ UNCHANGED <<priorityLog, calls, fetchingLocker, fetch, launches, lockersUsed, earlier,
                   diskVars, dl>>

\* if (!fetch) throw new Error(`Fetching for dependency type ... is not supported`)
RegistryThrows(i) ==
    /\ taskState[FetchTask(i)] = "running"
    /\ ~HasFetcher(fetch[i].type)
    /\ SettleTask(FetchTask(i), "err")
    /\ UNCHANGED <<priorityLog, callVars, diskVars, dl>>

\* variant: the integrity is recorded for a refetched entry too
FetchedRecording(i) ==
    /\ fetch[i].pc = "awaitFetch"
    /\ taskState[FetchTask(i)] = "ok"
    /\ fetch' = [fetch EXCEPT
            ![i].integrityWriter = "awaiting",
            ![i].logged = @ \cup {"fetched"},
            ![i].pc = IF fetch[i].pkg THEN "rename" ELSE "readPkg"]
    /\ UNCHANGED <<storeVars, calls, fetchingLocker, launches, runVars, diskVars, dl>>

\* after Promise.all: the integrity is recorded in the background for a new
\* entry, calculatingIntegrity is resolved at once for a refetched one
Fetched(i) ==
    /\ fetch[i].pc = "awaitFetch"
    /\ taskState[FetchTask(i)] = "ok"
    /\ fetch' = [fetch EXCEPT
            ![i].integrityWriter = IF fetch[i].targetExists THEN "none" ELSE "awaiting",
            ![i].logged = @ \cup {"fetched"},
            ![i].pc = IF fetch[i].pkg THEN "rename" ELSE "readPkg"]
    /\ fetchingLocker' = [fetchingLocker EXCEPT ![i].calculatingIntegrity =
            IF fetch[i].targetExists THEN Resolve(@, FALSE, "none") ELSE @]
    /\ UNCHANGED <<storeVars, calls, launches, runVars, diskVars, dl>>

FetchRejected(i) ==
    /\ fetch[i].pc = "awaitFetch"
    /\ taskState[FetchTask(i)] = "err"
    /\ Catch(i)
    /\ UNCHANGED <<storeVars, calls, launches, runVars, diskVars, dl>>

\* what is written to integrity.json
RecordedIntegrity(verifyStoreIntegrity) ==
    IF verifyStoreIntegrity THEN "integrity" ELSE "headers"

\* the background function gets the integrity, calls writeJsonFile without
\* awaiting it and resolves calculatingIntegrity
WriteStarted(i) == fetch[i].integrityWriter = "awaiting"

\* variant: calculatingIntegrity is left pending
IntegrityObtainedSilently(i) ==
    /\ WriteStarted(i)
    /\ fetch' = [fetch EXCEPT ![i].integrityWriter = "writing"]
    /\ UNCHANGED <<storeVars, calls, fetchingLocker, launches, runVars, diskVars, dl>>

IntegrityObtained(i) ==
    /\ WriteStarted(i)
    /\ fetch' = [fetch EXCEPT ![i].integrityWriter = "writing"]
    /\ fetchingLocker' = [fetchingLocker EXCEPT
            ![i].calculatingIntegrity = Resolve(@, FALSE, "none")]
    /\ UNCHANGED <<storeVars, calls, launches, runVars, diskVars, dl>>

\* integrityPromise rejects: the background function ends there
IntegrityRejects(i) ==
    /\ fetch[i].integrityWriter = "awaiting"
    /\ fetch[i].verifyStoreIntegrity
    /\ Fault
    /\ fetch' = [fetch EXCEPT ![i].integrityWriter = "rejected"]
    /\ UNCHANGED <<storeVars, calls, fetchingLocker, launches, lockersUsed, earlier, diskVars, dl>>

\* writeJsonFile ends: integrity.json is replaced as a whole
WriteJsonFileEnds(i) ==
    /\ fetch[i].integrityWriter = "writing"
    /\ fetch' = [fetch EXCEPT ![i].integrityWriter = "written"]
    /\ integrityJson' = [integrityJson EXCEPT ![i] =
            RecordedIntegrity(fetch[i].verifyStoreIntegrity)]
    /\ UNCHANGED <<storeVars, calls, fetchingLocker, launches, runVars,
                   storeIndex, targetStage, nodeModules, linkToUnpacked, dl>>

\* variant: the failure of the write reaches fetchingFiles
WriteJsonFileThrowsCaught(i) ==
    /\ fetch[i].integrityWriter = "writing"
    /\ Fault
    /\ fetch' = [fetch EXCEPT ![i].integrityWriter = "failed"]
    /\ fetchingLocker' = [fetchingLocker EXCEPT ![i].fetchingFiles = Reject(@)]
    /\ UNCHANGED <<storeVars, calls, launches, lockersUsed, earlier, diskVars, dl>>

\* writeJsonFile fails: its promise rejects and nobody handles it
WriteJsonFileThrows(i) ==
    /\ fetch[i].integrityWriter = "writing"
    /\ Fault
    /\ fetch' = [fetch EXCEPT ![i].integrityWriter = "failed"]
    /\ UNCHANGED <<storeVars, calls, fetchingLocker, launches, lockersUsed, earlier, diskVars, dl>>

\* pkg = await readPkgFromDir(targetStage); fetchingPkg.resolve(pkg)
ReadPkg(i) ==
    /\ fetch[i].pc = "readPkg"
    /\ targetStage[i]["package.json"] # "absent"
    /\ fetchingLocker' = [fetchingLocker EXCEPT ![i].fetchingPkg = Resolve(@, FALSE, "none")]
    /\ fetch' = [fetch EXCEPT ![i].pc = "rename"]
    /\ UNCHANGED <<storeVars, calls, launches, runVars, diskVars, dl>>

\* await mkdirp(path.dirname(unpacked)), then renameOverwrite: fs.rename fails on
\* a directory that is not empty, and then the directory is removed and
\* fs.rename is tried again
RenameNotEmpty(i) ==
    /\ fetch[i].pc = "rename"
    /\ ~IsEmpty(nodeModules[i])
    /\ fetch' = [fetch EXCEPT ![i].pc = "renameRimraf"]
    /\ UNCHANGED <<storeVars, calls, fetchingLocker, launches, runVars, diskVars, dl>>

\* variant: the stage directory is left where it is
RenameSkipped(i) ==
    /\ fetch[i].pc \in {"rename", "renameRimraf"}
    /\ IsEmpty(nodeModules[i])
    /\ fetch' = [fetch EXCEPT ![i].pc = "symlink"]
    /\ UNCHANGED <<storeVars, calls, fetchingLocker, launches, runVars, diskVars, dl>>

\* fs.rename(targetStage, unpacked)
Rename(i) ==
    /\ fetch[i].pc \in {"rename", "renameRimraf"}
    /\ IsEmpty(nodeModules[i])
    /\ nodeModules' = [nodeModules EXCEPT ![i] = targetStage[i]]
    /\ targetStage' = [targetStage EXCEPT ![i] = EmptyDir]
    /\ fetch' = [fetch EXCEPT ![i].pc = "symlink"]
    /\ UNCHANGED <<storeVars, calls, fetchingLocker, launches, runVars, storeIndex,
                   linkToUnpacked, integrityJson, dl>>

\* await symlinkDir(unpacked, linkToUnpacked); fetchingFiles.resolve({index, isNew: true})
SymlinkDir(i) ==
    /\ fetch[i].pc = "symlink"
    /\ linkToUnpacked' = [linkToUnpacked EXCEPT ![i] = TRUE]
    /\ fetchingLocker' = [fetchingLocker EXCEPT
            ![i].fetchingFiles = Resolve(@, TRUE, "headers")]
    /\ fetch' = [fetch EXCEPT ![i].pc = "done"]
    /\ UNCHANGED <<storeVars, calls, launches, runVars, storeIndex, targetStage,
                   nodeModules, integrityJson, dl>>

\* ------------------------------------------------------------------ the callers' side
\* nothing of the calls made so far is still running
Quiescent ==
    /\ \A c \in Calls : calls[c].pc # "resolving"
    /\ \A t \in Tasks : taskState[t] \notin {"queued", "running"}
    /\ \A i \in Ids :
        /\ fetch[i].pc \in {"none", "done"}
        /\ fetch[i].integrityWriter \notin {"awaiting", "writing"}
        /\ fetch[i].readingPkg # "reading"

NoCallYet == \A c \in Calls : calls[c].pc = "idle"

\* the caller goes on with a new, empty fetchingLocker on the same store instance
NewLocker ==
    /\ lockersUsed < MaxLockers
    /\ Quiescent
    /\ ~NoCallYet
    /\ lockersUsed' = lockersUsed + 1
    /\ calls' = [c \in Calls |-> IdleCall]
    /\ fetchingLocker' = << >>
    /\ fetch' = [i \in Ids |-> NoFetch]
    /\ launches' = [i \in Ids |-> 0]
    /\ taskState' = [t \in Tasks |-> "none"]
    /\ invocations' = [t \in Tasks |-> 0]
    /\ earlier' = [i \in Ids |->
            IF Launched(i) THEN fetchingLocker[i].fetchingFiles ELSE Differed]
    /\ UNCHANGED <<requestsQueue, priorityLog, faults, diskVars, dl>>

\* the caller records an identity in the store index it passes
IndexRecords(i) ==
    /\ NoCallYet
    /\ i \notin storeIndex
    /\ storeIndex' = storeIndex \cup {i}
    /\ UNCHANGED <<storeVars, callVars, targetStage, nodeModules, linkToUnpacked,
                   integrityJson, dl>>

\* a file of an unpacked package is modified from outside
ModifyFile(i) ==
    /\ NoCallYet
    /\ IsUntouched(nodeModules[i])
    /\ \E f \in Files :
        nodeModules' = [nodeModules EXCEPT ![i][f] = "modified"]
    /\ UNCHANGED <<storeVars, callVars, storeIndex, targetStage, linkToUnpacked,
                   integrityJson, dl>>

CoordinatorNext ==
    \/ \E c \in Calls :
        \/ ResolveAndFetch(c)
        \/ ResolverReturns(c)
        \/ ResolverThrows(c)
    \/ \E i \in Ids :
        \/ StepThrows(i)
        \/ Probe(i)
        \/ FoundInStore(i)
        \/ LoadJsonFileThrows(i)
        \/ FoundPkgRead(i)
        \/ FoundPkgReadThrows(i)
        \/ Refetching(i)
        \/ StageResetStep(i)
        \/ StageResetDone(i)
        \/ RimrafModulesStep(i)
        \/ RimrafModulesDone(i)
        \/ FetcherUnpacks(i)
        \/ FetcherReturns(i)
        \/ FetcherThrows(i)
        \/ RegistryThrows(i)
        \/ Fetched(i)
        \/ FetchRejected(i)
        \/ IntegrityObtained(i)
        \/ IntegrityRejects(i)
        \/ WriteJsonFileEnds(i)
        \/ WriteJsonFileThrows(i)
        \/ ReadPkg(i)
        \/ RenameNotEmpty(i)
        \/ Rename(i)
        \/ SymlinkDir(i)
        \/ IndexRecords(i)
        \/ ModifyFile(i)
    \/ NewLocker

\* ------------------------------------------------------------------ download
\* bytes a response body may deliver
MaxBytes == 1
\* gotOpts.retries as configured
MaxRetries == 2

\* the host of the tarball URL, and what opts.registry may be
TarballHost == "cdn.example.org"
RegistryHosts == {"registry.example.org", "cdn.example.org"}
NoRegistry == "none"

\* size when the response has no content-length, and when parseInt yields NaN
Null == -1
NaN == -2
\* res.headers['content-length']: absent, or a string that parseInt reads as a
\* number or as NaN
ContentLengths ==
    {[type |-> "undefined", digits |-> 0], [type |-> "string", digits |-> NaN]}
        \cup {[type |-> "string", digits |-> n] : n \in 0 .. MaxBytes}

\* typeof contentLength === 'string' ? parseInt(contentLength, 10) : null
Size(contentLength) ==
    IF contentLength.type = "string" THEN contentLength.digits ELSE Null

\* opts.size !== downloaded, where NaN differs from every number
Differs(size, downloaded) == size = NaN \/ size # downloaded

\* the url of the tarball; an error has no resource until fetch's catch sets it
TarballUrl == "https://cdn.example.org/pkg.tgz"
NoResource == "none"

NoError == [kind |-> "none", detail |-> << >>, attempts |-> 0, resource |-> NoResource]
Error(kind, detail) ==
    [kind |-> kind, detail |-> detail, attempts |-> 0, resource |-> NoResource]
\* new BadTarballError({expectedSize, receivedSize, tarballUrl})
BadTarballError(expectedSize, receivedSize) ==
    Error("BadTarball", <<expectedSize, receivedSize>>)
\* err.message: it tells the sizes of a bad tarball and the status code
Message(err) == <<err.kind, err.detail>>

\* what the attempt that failed last had read and counted (kept for the properties)
NoAttempt == [size |-> Null, downloaded |-> 0, ended |-> FALSE]
FailedAttempt(d) == [size |-> d.size, downloaded |-> d.downloaded, ended |-> d.pc = "ended"]

IdleDownload ==
    [pc |-> "idle", registry |-> NoRegistry, alwaysAuth |-> FALSE, integrity |-> FALSE,
     retries |-> 0, currentAttempt |-> 0, requests |-> 0, sentAuth |-> FALSE,
     size |-> Null, downloaded |-> 0, unpacked |-> FALSE, checked |-> FALSE,
     closed |-> FALSE, errors |-> << >>, rejection |-> NoError, failed |-> NoAttempt]

\* const auth = opts.registry && getCredentialsByURI(opts.registry, rawNpmConfig)
HasAuth(registry) == registry # NoRegistry

\* auth && (auth.alwaysAuth || !opts.registry || host of url === host of registry)
ShouldAuth(registry, alwaysAuth) ==
    /\ HasAuth(registry)
    /\ (alwaysAuth \/ registry = NoRegistry \/ TarballHost = registry)

\* client.fetch(url, {auth: shouldAuth && auth || undefined}, ...) for an attempt
Request(d, attempt) ==
    [d EXCEPT !.pc = "requesting", !.currentAttempt = attempt,
              !.requests = @ + 1,
              !.sentAuth = ShouldAuth(d.registry, d.alwaysAuth) /\ HasAuth(d.registry),
              !.size = Null, !.downloaded = 0, !.unpacked = FALSE, !.checked = FALSE,
              !.closed = FALSE]

\* download(url, saveto, opts): op.attempt runs the first fetch
Download ==
    /\ dl.pc = "idle"
    /\ \E registry \in RegistryHosts \cup {NoRegistry}, alwaysAuth \in BOOLEAN,
          integrity \in BOOLEAN, retries \in 0 .. MaxRetries :
        dl' = Request([dl EXCEPT !.registry = registry, !.alwaysAuth = alwaysAuth,
                                 !.integrity = integrity, !.retries = retries], 1)
    /\ UNCHANGED <<storeVars, callVars, diskVars>>

\* await mkdirp(path.dirname(saveto)) throws: no attempt is made
MkdirpThrows ==
    /\ dl.pc = "idle"
    /\ dl' = [dl EXCEPT !.pc = "rejected", !.rejection = Error("mkdirp", << >>)]
    /\ UNCHANGED <<storeVars, callVars, diskVars>>

\* op.retry(err): whether another attempt is made
Retry(d) == d.currentAttempt <= d.retries

\* op.mainError(): the error whose message was seen most often, the later one
\* among those seen equally often
RECURSIVE MainErrorFrom(_, _, _, _)
MainErrorFrom(errors, k, mainError, mainErrorCount) ==
    IF k > Len(errors) THEN mainError
    ELSE LET count == Cardinality({j \in 1 .. k : Message(errors[j]) = Message(errors[k])})
         IN IF count >= mainErrorCount
            THEN MainErrorFrom(errors, k + 1, errors[k], count)
            ELSE MainErrorFrom(errors, k + 1, mainError, mainErrorCount)

\* variant: the error of the last attempt
LastOfErrors(errors) == errors[Len(errors)]

MainError(errors) == MainErrorFrom(errors, 1, NoError, 0)

\* an attempt rejects: err.attempts = currentAttempt and err.resource = url, then
\* the catch of op.attempt retries or rejects the download with op.mainError()
AttemptFails(err) ==
    LET decorated == [err EXCEPT !.attempts = dl.currentAttempt, !.resource = TarballUrl]
        errors == Append(dl.errors, decorated)
        failed == [dl EXCEPT !.errors = errors, !.failed = FailedAttempt(dl)]
    IN /\ dl' = IF Retry(dl)
                THEN Request(failed, dl.currentAttempt + 1)
                ELSE [failed EXCEPT !.pc = "rejected", !.rejection = MainError(errors)]
       /\ UNCHANGED <<storeVars, callVars, diskVars>>

\* if (err) return reject(err)
ClientFails ==
    /\ dl.pc = "requesting"
    /\ AttemptFails(Error("network", << >>))

\* if (res.statusCode !== 200) reject(new Error(`Invalid response: ${res.statusCode}`))
InvalidResponse ==
    /\ dl.pc = "requesting"
    /\ AttemptFails(Error("status", <<404>>))

\* a 200 response: its size is read and the body is piped
Response ==
    /\ dl.pc = "requesting"
    /\ \E contentLength \in ContentLengths :
        dl' = [dl EXCEPT !.pc = "streaming", !.size = Size(contentLength)]
    /\ UNCHANGED <<storeVars, callVars, diskVars>>

\* res.on('data'): downloaded += chunk.length
Data ==
    /\ dl.pc = "streaming"
    /\ dl.downloaded < MaxBytes
    /\ dl' = [dl EXCEPT !.downloaded = @ + 1]
    /\ UNCHANGED <<storeVars, callVars, diskVars>>

\* the body ends
End ==
    /\ dl.pc = "streaming"
    /\ dl' = [dl EXCEPT !.pc = "ended"]
    /\ UNCHANGED <<storeVars, callVars, diskVars>>

\* .on('error', reject) of the response or of the write stream
StreamFails ==
    /\ dl.pc \in {"streaming", "ended"}
    /\ AttemptFails(Error("stream", << >>))

\* unpackStream.local rejects
UnpackFails ==
    /\ dl.pc \in {"streaming", "ended"}
    /\ ~dl.unpacked
    /\ AttemptFails(Error("unpack", << >>))

UnpackEnds ==
    /\ dl.pc = "ended"
    /\ ~dl.unpacked
    /\ dl' = [dl EXCEPT !.unpacked = TRUE]
    /\ UNCHANGED <<storeVars, callVars, diskVars>>

\* opts.integrity && ssri.checkStream(res, opts.integrity) rejects
IntegrityFails ==
    /\ dl.pc = "ended"
    /\ dl.integrity
    /\ ~dl.checked
    /\ AttemptFails(Error("integrity", << >>))

IntegrityChecked ==
    /\ dl.pc = "ended"
    /\ dl.integrity
    /\ ~dl.checked
    /\ dl' = [dl EXCEPT !.checked = TRUE]
    /\ UNCHANGED <<storeVars, callVars, diskVars>>

\* variant: the size is compared even when there is no content-length
BadTarballUnguarded(d) == Differs(d.size, d.downloaded)

\* waitTillClosed: on 'close', a size that is not null and differs from the
\* bytes counted rejects with BadTarballError
BadTarball(d) == d.size # Null /\ Differs(d.size, d.downloaded)

CloseBadTarball ==
    /\ dl.pc = "ended"
    /\ ~dl.closed
    /\ BadTarball(dl)
    /\ AttemptFails(BadTarballError(dl.size, dl.downloaded))

Close ==
    /\ dl.pc = "ended"
    /\ ~dl.closed
    /\ ~BadTarball(dl)
    /\ dl' = [dl EXCEPT !.closed = TRUE]
    /\ UNCHANGED <<storeVars, callVars, diskVars>>

\* Promise.all([...]).then((vals) => resolve(vals[1])): the download resolves
AttemptResolves ==
    /\ dl.pc = "ended"
    /\ dl.unpacked
    /\ dl.integrity => dl.checked
    /\ dl.closed
    /\ dl' = [dl EXCEPT !.pc = "resolved"]
    /\ UNCHANGED <<storeVars, callVars, diskVars>>

DownloadNext ==
    \/ Download
    \/ MkdirpThrows
    \/ ClientFails
    \/ InvalidResponse
    \/ Response
    \/ Data
    \/ End
    \/ StreamFails
    \/ UnpackFails
    \/ UnpackEnds
    \/ IntegrityFails
    \/ IntegrityChecked
    \/ CloseBadTarball
    \/ Close
    \/ AttemptResolves

\* ------------------------------------------------------------------ specifications
Init ==
    /\ InitCoordinator
    /\ dl = IdleDownload

\* the fetch coordinator: callers, the request queue, the store on disk
Next == CoordinatorNext

Spec == Init /\ [][Next]_vars

\* the steps of doFetchToStore and of the queue that go on by themselves: every
\* continuation that is ready runs, every filesystem call and every task that
\* does not fail ends
Proceeds(i) ==
    \/ Probe(i)
    \/ FoundInStore(i)
    \/ LoadJsonFileThrows(i)
    \/ FoundPkgRead(i)
    \/ Refetching(i)
    \/ StageResetStep(i)
    \/ StageResetDone(i)
    \/ RimrafModulesStep(i)
    \/ RimrafModulesDone(i)
    \/ FetcherUnpacks(i)
    \/ FetcherReturns(i)
    \/ RegistryThrows(i)
    \/ Fetched(i)
    \/ FetchRejected(i)
    \/ IntegrityObtained(i)
    \/ WriteJsonFileEnds(i)
    \/ ReadPkg(i)
    \/ RenameNotEmpty(i)
    \/ Rename(i)
    \/ SymlinkDir(i)

\* the calls made on one fetchingLocker over a store that starts empty: what
\* can happen while nothing of an identity is on disk before its fetch
FreshNext ==
    \/ \E c \in Calls :
        \/ ResolveAndFetch(c)
        \/ ResolverReturns(c)
        \/ ResolverThrows(c)
    \/ \E i \in Ids :
        \/ IndexRecords(i)
        \/ StepThrows(i)
        \/ Probe(i)
        \/ StageResetDone(i)
        \/ FetcherUnpacks(i)
        \/ FetcherReturns(i)
        \/ FetcherThrows(i)
        \/ RegistryThrows(i)
        \/ Fetched(i)
        \/ FetchRejected(i)
        \/ IntegrityObtained(i)
        \/ IntegrityRejects(i)
        \/ WriteJsonFileEnds(i)
        \/ WriteJsonFileThrows(i)
        \/ ReadPkg(i)
        \/ Rename(i)
        \/ SymlinkDir(i)

\* the same with its steps going on: a resolver that is running ends, and so
\* does each step of a fetch to the store
FreshSpec ==
    /\ Init
    /\ [][FreshNext]_vars
    /\ \A c \in Calls : WF_vars(ResolverReturns(c) \/ ResolverThrows(c))
    /\ \A i \in Ids : WF_vars(Proceeds(i))

\* a store instance whose queue runs one task at a time: every fetch is given
\* the priority -1000 and waits behind the resolvers that are queued
SettleInit ==
    /\ Init
    /\ requestsQueue = NewQueue(1)

\* the calls made on every fetchingLocker of that instance, store hits and
\* refetches among them, with the steps going on: the queue admits what it
\* holds as its tasks end, and every resolver, fetcher and filesystem call ends
SettleSpec ==
    /\ SettleInit
    /\ [][Next]_vars
    /\ \A c \in Calls : WF_vars(ResolverReturns(c) \/ ResolverThrows(c))
    /\ \A i \in Ids : WF_vars(Proceeds(i))

\* one download of the HTTP client
DownloadInit ==
    /\ Init
    /\ requestsQueue = NewQueue(0)

DownloadSpec == DownloadInit /\ [][DownloadNext]_vars

\* ------------------------------------------------------------------ properties
\* C1: for any identity, however the calls that share one fetchingLocker and
\* resolve to it interleave, fetchToStore runs once and the fetcher is invoked
\* exactly once: never twice, and once as soon as the fetch task has started
C1_FetcherInvokedOnce ==
    \A i \in Ids :
        /\ launches[i] <= 1
        /\ launches[i] = 1 <=> Launched(i)
        /\ invocations[FetchTask(i)] <= 1
        /\ (/\ Launched(i)
            /\ HasFetcher(fetch[i].type)
            /\ taskState[FetchTask(i)] \in {"running", "ok", "err"})
                => invocations[FetchTask(i)] = 1

\* two calls went through the resolver to the same identity and both returned
C1_Witness ==
    \E i \in Ids :
        /\ \A c \in Calls :
            /\ calls[c].pc = "returned"
            /\ ~calls[c].handle.isLocal
            /\ calls[c].handle.id = i
            /\ taskState[ResolveTask(c)] = "ok"
        /\ invocations[FetchTask(i)] = 1

\* C2: package/package.json is never readable while node_modules/<pkgName>
\* holds partial content
C2_NoPartialBehindManifest ==
    \A i \in Ids : ManifestExists(i) => ~IsPartial(nodeModules[i])

\* an entry is strict, recorded in the index and its package.json exists when
\* doFetchToStore starts
StrictOnRecorded(i) ==
    /\ Launched(i)
    /\ fetch[i].verifyStoreIntegrity
    /\ fetch[i].atLaunch.recorded
    /\ fetch[i].atLaunch.manifest
    /\ fetch[i].atLaunch.integrity = "integrity"

Pinned(call) == call.shrinkwrapResolution # NoResolution /\ ~call.update

\* C4: with shrinkwrapResolution supplied and update false no resolver task is
\* given to the queue and no resolver runs, and the handle returned carries the
\* supplied resolution and the supplied pkgId
C4_PinnedSkipsResolver ==
    \A c \in Calls :
        (calls[c].pc # "idle" /\ Pinned(calls[c])) =>
            /\ taskState[ResolveTask(c)] = "none"
            /\ invocations[ResolveTask(c)] = 0
            /\ calls[c].pc \in {"returned", "thrown"}
            /\ calls[c].pc = "returned" =>
                /\ calls[c].handle.resolution = calls[c].shrinkwrapResolution
                /\ calls[c].handle.id = calls[c].pkgId

\* a pinned call has returned its handle
C4_Witness ==
    \E c \in Calls :
        /\ Pinned(calls[c])
        /\ calls[c].pc = "returned"
        /\ calls[c].handle.id \in Ids
        /\ calls[c].handle.resolution.from = "shrinkwrap"

\* counter values and window lengths over which the rotation is computed
MaxCounter == 40

\* submissions with the deferred priority among those numbered from+1 .. from+K
Deferred(from, K, concurrency) ==
    Cardinality({k \in (from + 1) .. (from + K) : FetchPriority(k, concurrency) = -1000})

\* over any K consecutive counter values the deferred ones are K/concurrency
\* within 1, for each concurrency a queue may have
RotationWithinOne ==
    \A opt \in NetworkConcurrencyOpts, from \in 0 .. MaxCounter, K \in 1 .. MaxCounter :
        LET concurrency == NetworkConcurrency(opt)
        IN concurrency * Deferred(from, K, concurrency) - K \in (-concurrency) .. concurrency

\* C5: the counter is incremented once per fetch submission and by nothing
\* else, the k-th submission gets the priority of counter value k, which is
\* -1000 or 1000, and over any K consecutive submissions those with -1000 are
\* K/concurrency within 1
C5_PriorityRotation ==
    /\ requestsQueue.counter = Len(priorityLog)
    /\ \A k \in 1 .. Len(priorityLog) :
        /\ priorityLog[k] = FetchPriority(k, requestsQueue.concurrency)
        /\ priorityLog[k] \in {-1000, 1000}
    /\ \A a \in 1 .. Len(priorityLog), b \in 1 .. Len(priorityLog) :
        a <= b =>
            LET K == b - a + 1
                deferred == Cardinality({k \in a .. b : priorityLog[k] = -1000})
                concurrency == requestsQueue.concurrency
            IN concurrency * deferred - K \in (-concurrency) .. concurrency
    /\ RotationWithinOne

\* two submissions on a queue of concurrency 2, the second of them deferred,
\* and a fetchingFiles resolved on the locker in use
C5_Witness ==
    /\ priorityLog = <<1000, -1000>>
    /\ \E i \in Ids :
        /\ Launched(i)
        /\ Entry(i).fetchingFiles.state = "resolved"

\* ------------------------------------------------------------------ properties of a download
\* C6: every request of a download carries credentials if and only if
\* alwaysAuth is set, or no registry is provided, or the tarball URL's host is
\* the registry's host
C6_CredentialsIff ==
    dl.requests > 0 =>
        (dl.sentAuth <=>
            (dl.alwaysAuth \/ dl.registry = NoRegistry \/ TarballHost = dl.registry))

\* an attempt has failed, and the error it was rejected with
AttemptFailed == Len(dl.errors) > 0
LastError == dl.errors[Len(dl.errors)]

\* C7 as stated: an attempt whose response has content-length N and whose body
\* was delivered with M bytes fails with BadTarball{N, M} if and only if M
\* differs from N, and without content-length it never fails with BadTarball
C7_BadTarballIff ==
    /\ (AttemptFailed /\ dl.failed.ended) =>
        IF dl.failed.size = Null
        THEN LastError.kind # "BadTarball"
        ELSE Differs(dl.failed.size, dl.failed.downloaded)
                <=> Message(LastError) =
                        Message(BadTarballError(dl.failed.size, dl.failed.downloaded))
    /\ (dl.pc = "resolved" /\ dl.size # Null) => ~Differs(dl.size, dl.downloaded)

\* C7 amended: an attempt fails with BadTarball only when its response has a
\* content-length and the size N read from it differs from the M bytes
\* delivered, and the error then carries N and M; an attempt with a
\* content-length whose N differs from M never resolves; an attempt without
\* content-length never fails with BadTarball
C7_BadTarballOnlyIf ==
    /\ (AttemptFailed /\ LastError.kind = "BadTarball") =>
        /\ dl.failed.ended
        /\ dl.failed.size # Null
        /\ Differs(dl.failed.size, dl.failed.downloaded)
        /\ LastError.detail = <<dl.failed.size, dl.failed.downloaded>>
    /\ \A k \in 1 .. Len(dl.errors) :
        dl.errors[k].kind = "BadTarball" =>
            /\ dl.errors[k].detail[1] # Null
            /\ Differs(dl.errors[k].detail[1], dl.errors[k].detail[2])
    /\ (dl.pc = "resolved" /\ dl.size # Null) => ~Differs(dl.size, dl.downloaded)

\* a body of M bytes behind a content-length N, M different from N, has
\* failed with BadTarball
C7_Witness ==
    /\ AttemptFailed
    /\ LastError.kind = "BadTarball"
    /\ dl.failed.size \in 0 .. MaxBytes
    /\ dl.failed.downloaded # dl.failed.size

\* ------------------------------------------------------------------ properties of the futures
\* the identity was fetched anew on the locker used before, and now, recorded
\* in the index and left alone, it is asked for again without any failure
FreshThenAgain(i) ==
    /\ earlier[i].state = "resolved"
    /\ earlier[i].isNew
    /\ faults = 0
    /\ Launched(i)
    /\ fetch[i].atLaunch.recorded
    /\ fetch[i].atLaunch.untouched
    /\ Entry(i).fetchingFiles.state = "resolved"

\* C8: a fresh fetch followed by a second resolveAndFetch for the same identity
\* yields isNew true and then isNew false, both with the same index
C8_RoundTrip ==
    \A i \in Ids :
        FreshThenAgain(i) =>
            /\ ~Entry(i).fetchingFiles.isNew
            /\ Entry(i).fetchingFiles.index = earlier[i].index

\* C9: when fetchingFiles is resolved with isNew, the stage directory has been
\* renamed to node_modules/<pkgName> and the package symlink points at it;
\* when it is resolved as a store hit, the entry was published before the
\* fetch started and still is
C9_ResolvedAfterRename ==
    \A i \in Ids :
        (Launched(i) /\ Entry(i).fetchingFiles.state = "resolved") =>
            IF Entry(i).fetchingFiles.isNew
            THEN /\ IsEmpty(targetStage[i])
                 /\ IsComplete(nodeModules[i])
                 /\ linkToUnpacked[i]
            ELSE /\ fetch[i].atLaunch.manifest
                 /\ ManifestExists(i)

\* a fresh fetch has resolved fetchingFiles
C9_Witness ==
    \E i \in Ids :
        /\ Launched(i)
        /\ Entry(i).fetchingFiles.state = "resolved"
        /\ Entry(i).fetchingFiles.isNew
        /\ ~fetch[i].targetExists

\* C10: on a fresh fetch calculatingIntegrity is not resolved while the write
\* of integrity.json is still pending or has failed
C10_SettledAfterWrite ==
    \A i \in Ids :
        (/\ Launched(i)
         /\ ~fetch[i].targetExists
         /\ fetch[i].integrityWriter \in {"writing", "failed"})
            => Entry(i).calculatingIntegrity.state # "resolved"

\* ------------------------------------------------------------------ properties of failures
\* the steps 2 to 7 of doFetchToStore: stage reset, fetch (with the removal of
\* node_modules beside it), manifest read, rename, symlink
StepsTwoToSeven ==
    {"stageReset", "rmModules", "awaitFetch", "readPkg", "rename", "renameRimraf",
     "symlink"}

\* C11: an error in any of the steps 2 to 7 leaves fetchingFiles rejected and,
\* when the caller did not supply pkg, fetchingPkg rejected too
C11_ErrorRejectsBoth ==
    \A i \in Ids :
        (Launched(i) /\ fetch[i].failedAt \in StepsTwoToSeven) =>
            /\ Entry(i).fetchingFiles.state = "rejected"
            /\ ~fetch[i].pkg => Entry(i).fetchingPkg.state = "rejected"

\* the integrity of a fresh entry could not be obtained or written
IntegrityFailed(i) == fetch[i].integrityWriter \in {"rejected", "failed"}

\* C12: when integrityPromise rejects or the write of integrity.json fails
\* after the unpacking succeeded, and no step of the fetch itself fails,
\* fetchingFiles is not rejected, and it is resolved with isNew true once the
\* rename and the symlink are done
C12_IntegrityFailureApart ==
    \A i \in Ids :
        (Launched(i) /\ IntegrityFailed(i) /\ fetch[i].failedAt = "none") =>
            /\ Entry(i).fetchingFiles.state # "rejected"
            /\ fetch[i].pc = "done" =>
                /\ Entry(i).fetchingFiles.state = "resolved"
                /\ Entry(i).fetchingFiles.isNew

\* the write of integrity.json has failed and fetchingFiles is resolved
C12_Witness ==
    \E i \in Ids :
        /\ fetch[i].integrityWriter = "failed"
        /\ Entry(i).fetchingFiles.state = "resolved"
        /\ Entry(i).fetchingFiles.isNew

\* ------------------------------------------------------------------ properties of retries
\* every attempt of the download has failed and it is rejected
Exhausted == dl.pc = "rejected" /\ dl.requests > 0

\* how many of the attempts failed with the message of err
Occurrences(err) ==
    Cardinality({j \in 1 .. Len(dl.errors) : Message(dl.errors[j]) = Message(err)})

\* C13 as stated: when every attempt fails the download makes retries+1
\* attempts and rejects with the error of the final attempt, which carries
\* attempts equal to the number of attempts made and resource equal to the url
C13_FinalError ==
    Exhausted =>
        /\ dl.requests = dl.retries + 1
        /\ dl.rejection = LastError
        /\ dl.rejection.attempts = dl.requests
        /\ dl.rejection.resource = TarballUrl

\* C13 amended: when every attempt fails the download makes retries+1 attempts
\* and rejects with the error of one of them, one whose message no other
\* message was seen more often than, carrying the number of the attempt that
\* raised it and resource equal to the url; when all the attempts failed with
\* the same message it is the error of the final attempt, with attempts equal
\* to the number of attempts made
C13_MainError ==
    Exhausted =>
        /\ dl.requests = dl.retries + 1
        /\ Len(dl.errors) = dl.requests
        /\ \A k \in 1 .. Len(dl.errors) :
            /\ dl.errors[k].attempts = k
            /\ Occurrences(dl.errors[k]) <= Occurrences(dl.rejection)
        /\ \E k \in 1 .. Len(dl.errors) : dl.rejection = dl.errors[k]
        /\ dl.rejection.resource = TarballUrl
        /\ (\A k \in 1 .. Len(dl.errors) : Message(dl.errors[k]) = Message(LastError))
            => (dl.rejection = LastError /\ dl.rejection.attempts = dl.requests)

\* three attempts, the first two failed alike and the third differently: the
\* download is rejected with the error of the second
C13_Witness ==
    /\ Exhausted
    /\ Len(dl.errors) = 3
    /\ Message(dl.errors[1]) = Message(dl.errors[2])
    /\ Message(dl.errors[3]) # Message(dl.errors[2])
    /\ dl.rejection = dl.errors[2]

\* ------------------------------------------------------------------ properties of local dependencies
\* call c ends in this step on a directory resolution: with a local handle or
\* with the missing-manifest error
EndsLocal(c) ==
    /\ calls[c].pc \in {"idle", "resolving"}
    /\ \/ calls'[c].pc = "returned" /\ calls'[c].handle.isLocal
       \/ calls'[c].pc = "thrown" /\ calls'[c].error = "MissingManifest"

\* the handles returned are local exactly for directory resolutions, and a
\* directory resolution that comes without a manifest (a pinned one) makes the
\* call throw the missing-manifest error
LocalHandles ==
    \A c \in Calls :
        /\ calls[c].pc = "returned" =>
            (calls[c].handle.isLocal <=> calls[c].handle.resolution.type = "directory")
        /\ (/\ calls[c].pc # "idle"
            /\ Pinned(calls[c])
            /\ calls[c].shrinkwrapResolution.type = "directory")
                => (calls[c].pc = "thrown" /\ calls[c].error = "MissingManifest")
        /\ calls[c].error = "MissingManifest" => calls[c].pc = "thrown"

\* C14: a call whose resolution is a directory returns a local handle, or
\* throws the missing-manifest error when there is no manifest, and the step in
\* which it does puts nothing into the fetchingLocker, starts no fetch, gives
\* no fetch to the queue and leaves the store as it is
C14_DirectoryIsLocal ==
    /\ []LocalHandles
    /\ [][\A c \in Calls :
            EndsLocal(c) =>
                /\ UNCHANGED <<fetchingLocker, fetch, launches, priorityLog, diskVars>>
                /\ requestsQueue'.counter = requestsQueue.counter
                /\ \A i \in Ids : taskState[FetchTask(i)] = "none"
                                    => taskState'[FetchTask(i)] = "none"]_vars

\* a call has returned a local handle while the locker is empty
C14_Witness ==
    /\ \E c \in Calls :
        /\ calls[c].pc = "returned"
        /\ calls[c].handle.isLocal
        /\ calls[c].handle.id \in Ids
    /\ DOMAIN fetchingLocker = {}

\* ------------------------------------------------------------------ properties of the store hit
\* doFetchToStore took the store-hit path
StoreHit(i) == "found_in_store" \in fetch[i].logged

\* what the verifier makes of the entry as it was when the fetch started:
\* strict, the recorded per-file index with every file matching it; fast, an
\* integrity.json that can be read
TrustedAtLaunch(i) ==
    IF fetch[i].verifyStoreIntegrity
    THEN fetch[i].atLaunch.integrity = "integrity" /\ fetch[i].atLaunch.untouched
    ELSE fetch[i].atLaunch.integrity # "none"

PresentAtLaunch(i) == fetch[i].atLaunch.recorded /\ fetch[i].atLaunch.manifest

\* doFetchToStore is past its check of the store and the check did not throw
PastVerify(i) ==
    /\ fetch[i].pc \notin {"probe", "verify"}
    /\ fetch[i].failedAt # "verify"

\* doFetchToStore is past the submission of the fetch
PastSubmission(i) ==
    /\ PastVerify(i)
    /\ fetch[i].pc # "stageReset"
    /\ fetch[i].failedAt # "stageReset"

\* C15: the store-hit path is taken exactly when the index records the entry,
\* package/package.json exists and the verifier trusts the entry; on it no
\* fetch is given to the queue and no fetcher runs, fetchingFiles is resolved
\* with isNew false and the recorded integrity as index, and
\* calculatingIntegrity is resolved; an entry that is not recorded or has no
\* package/package.json is fetched as an absent one
C15_StoreHit ==
    \A i \in Ids :
        Launched(i) =>
            /\ StoreHit(i) => (PresentAtLaunch(i) /\ TrustedAtLaunch(i))
            /\ (PresentAtLaunch(i) /\ TrustedAtLaunch(i) /\ PastVerify(i)) => StoreHit(i)
            /\ StoreHit(i) =>
                /\ taskState[FetchTask(i)] = "none"
                /\ invocations[FetchTask(i)] = 0
                /\ Entry(i).fetchingFiles =
                    [state |-> "resolved", isNew |-> FALSE,
                     index |-> fetch[i].atLaunch.integrity]
                /\ integrityJson[i] = fetch[i].atLaunch.integrity
                /\ Entry(i).calculatingIntegrity.state = "resolved"
            /\ (~PresentAtLaunch(i) /\ PastVerify(i)) =>
                /\ ~StoreHit(i)
                /\ ~fetch[i].targetExists
                /\ PastSubmission(i) => taskState[FetchTask(i)] # "none"

\* a store hit in fast mode, and no fetch given to the queue
C15_Witness ==
    \E i \in Ids :
        /\ Launched(i)
        /\ StoreHit(i)
        /\ ~fetch[i].verifyStoreIntegrity
        /\ Entry(i).fetchingFiles.index = "headers"
        /\ taskState[FetchTask(i)] = "none"

\* ------------------------------------------------------------------ properties of error events
\* C16: an error during resolution makes the call throw and emit an error
\* event, and an error during the fetch to the store rejects fetchingFiles and
\* emits an error event
C16_ErrorsAreLogged ==
    /\ \A c \in Calls :
        calls[c].pc = "thrown" => "error" \in calls[c].logged
    /\ \A i \in Ids :
        (Launched(i) /\ fetch[i].failedAt # "none") =>
            /\ Entry(i).fetchingFiles.state = "rejected"
            /\ "error" \in fetch[i].logged

\* ------------------------------------------------------------------ properties of progress
\* the three futures of the identity are resolved
AllResolved(i) ==
    /\ Launched(i)
    /\ Entry(i).fetchingFiles.state = "resolved"
    /\ Entry(i).fetchingPkg.state = "resolved"
    /\ Entry(i).calculatingIntegrity.state = "resolved"

\* a fresh fetch of the identity is under way, with a fetcher for its type
FreshFetch(i) ==
    /\ Launched(i)
    /\ ~fetch[i].atLaunch.manifest
    /\ HasFetcher(fetch[i].type)

\* the fetcher (with its integrityPromise), the manifest read, the rename or
\* the symlink of the identity has failed
FetchFailed(i) ==
    \/ fetch[i].failedAt # "none"
    \/ taskState[FetchTask(i)] = "err"
    \/ fetch[i].integrityWriter = "rejected"

\* the callers that went to the store for the same identity hold the same path
SamePath ==
    \A c \in Calls, b \in Calls :
        (/\ calls[c].pc = "returned" /\ ~calls[c].handle.isLocal
         /\ calls[b].pc = "returned" /\ ~calls[b].handle.isLocal
         /\ calls[c].handle.id = calls[b].handle.id)
            => /\ calls[c].handle.path = calls[b].handle.path
               /\ Launched(calls[c].handle.id)

\* C17: when calls fetch one identity that is not in the store and the
\* fetcher, the manifest read, the rename and the symlink succeed, the three
\* futures that every caller holds are eventually resolved, and the callers'
\* handles have the same path
C17_AllSettle ==
    /\ []SamePath
    /\ \A i \in Ids : FreshFetch(i) ~> (AllResolved(i) \/ FetchFailed(i))

\* two callers hold the futures of one fresh fetch, all three resolved
C17_Witness ==
    \E i \in Ids :
        /\ FreshFetch(i)
        /\ AllResolved(i)
        /\ Entry(i).fetchingFiles.isNew
        /\ invocations[FetchTask(i)] = 1
        /\ \A c \in Calls : calls[c].pc = "returned" /\ calls[c].handle.path = Target(i)

\* ------------------------------------------------------------------ properties of the locker
\* a future that is settled stays as it is
KeepsSettled(i) ==
    /\ Settled(Entry(i).fetchingFiles) => Entry(i)'.fetchingFiles = Entry(i).fetchingFiles
    /\ Settled(Entry(i).fetchingPkg) => Entry(i)'.fetchingPkg = Entry(i).fetchingPkg
    /\ Settled(Entry(i).calculatingIntegrity)
        => Entry(i)'.calculatingIntegrity = Entry(i).calculatingIntegrity

\* call c returns in this step a handle for an identity the locker already holds
ReturnsHeld(c) ==
    /\ calls[c].pc # "returned"
    /\ calls'[c].pc = "returned"
    /\ ~calls'[c].handle.isLocal
    /\ Launched(calls'[c].handle.id)

\* C18: while the callers use the same fetchingLocker, an entry that is in it
\* stays in it and no second fetch is started for its identity, its settled
\* futures stay as they are, and a call that comes for the identity afterwards,
\* also after the futures have rejected, gets the entry as it is and starts
\* nothing
C18_EntryIsKept ==
    [][lockersUsed' = lockersUsed =>
        /\ \A i \in Ids :
            Launched(i) =>
                /\ Launched(i)'
                /\ launches'[i] = launches[i]
                /\ KeepsSettled(i)
        /\ \A c \in Calls :
            ReturnsHeld(c) => UNCHANGED <<fetchingLocker, fetch, launches, priorityLog>>]_vars

\* after a fetch failed a second call has come for the identity and holds the
\* rejected fetchingFiles of the only fetch
C18_Witness ==
    \E i \in Ids :
        /\ \A c \in Calls :
            calls[c].pc = "returned" /\ ~calls[c].handle.isLocal /\ calls[c].handle.id = i
        /\ Entry(i).fetchingFiles.state = "rejected"
        /\ launches[i] = 1

\* ------------------------------------------------------------------ properties of the queue
\* the tasks the queue has started and that have not ended
Running == {t \in Tasks : taskState[t] = "running"}

\* C19: the resolver and fetcher tasks that the queue has started and that have
\* not ended are never more than networkConcurrency, which is 16 when the
\* option is absent or 0; the queue counts them, and holds tasks back only
\* when that many are running
C19_ConcurrencyBound ==
    /\ Cardinality(Running) <= requestsQueue.concurrency
    /\ requestsQueue.pendingCount = Cardinality(Running)
    /\ requestsQueue.concurrency \in {NetworkConcurrency(opt) : opt \in NetworkConcurrencyOpts}
    /\ NetworkConcurrency(0) = 16
    /\ requestsQueue.queue # << >> => Cardinality(Running) = requestsQueue.concurrency
    /\ \A t \in Tasks :
        taskState[t] = "queued" <=>
            \E k \in 1 .. Len(requestsQueue.queue) : requestsQueue.queue[k].task = t

\* a queue of concurrency 1 with a task running and another one held back
C19_Witness ==
    /\ requestsQueue.concurrency = 1
    /\ Cardinality(Running) = 1
    /\ \E t \in Tasks : taskState[t] = "queued"

\* ------------------------------------------------------------------ properties of the refetch
\* doFetchToStore found the entry and did not trust it
RefetchPath(i) ==
    /\ Launched(i)
    /\ fetch[i].targetExists
    /\ ~StoreHit(i)
    /\ fetch[i].pc \notin {"probe", "verify"}
    /\ fetch[i].failedAt # "verify"

\* C20: on the refetch path integrity.json is neither deleted nor written, it
\* holds what it held when the fetch started, no integrity is recorded in the
\* background, and calculatingIntegrity is resolved as soon as the fetch and
\* the removal of node_modules are done
C20_RefetchKeepsIntegrity ==
    \A i \in Ids :
        RefetchPath(i) =>
            /\ integrityJson[i] = fetch[i].atLaunch.integrity
            /\ fetch[i].integrityWriter = "none"
            /\ "fetched" \in fetch[i].logged
                => Entry(i).calculatingIntegrity.state = "resolved"

\* an entry with a recorded integrity has been fetched again and published
C20_Witness ==
    \E i \in Ids :
        /\ RefetchPath(i)
        /\ fetch[i].atLaunch.integrity = "integrity"
        /\ Entry(i).fetchingFiles.state = "resolved"
        /\ Entry(i).fetchingFiles.isNew
        /\ IsUntouched(nodeModules[i])

\* ------------------------------------------------------------------ properties of the fetcher registry
\* the fetch of the identity has been given to the queue for a type that no
\* fetcher is registered for
Unsupported(i) ==
    /\ Launched(i)
    /\ ~HasFetcher(fetch[i].type)
    /\ taskState[FetchTask(i)] # "none"

\* the steps after the fetch: manifest read, rename, symlink
AfterFetch == {"readPkg", "rename", "renameRimraf", "symlink"}

\* what holds of a fetch according to the type it is dispatched on
Dispatched ==
    \A i \in Ids :
        /\ DispatchKey(Absent) = "tarball"
        /\ (Launched(i) /\ invocations[FetchTask(i)] > 0)
            => DispatchKey(fetch[i].type) \in FetcherTypes
        /\ (/\ Launched(i)
            /\ fetch[i].type = Absent
            /\ taskState[FetchTask(i)] \in {"running", "ok", "err"})
                => invocations[FetchTask(i)] = 1
        /\ Unsupported(i) =>
            /\ invocations[FetchTask(i)] = 0
            /\ taskState[FetchTask(i)] \in {"queued", "running", "err"}
            /\ IsEmpty(targetStage[i])
            /\ fetch[i].pc \notin AfterFetch
            /\ fetch[i].failedAt \notin AfterFetch
            /\ Entry(i).fetchingFiles.state # "resolved"
            /\ (fetch[i].pc = "done" /\ taskState[FetchTask(i)] = "err")
                => Entry(i).fetchingFiles.state = "rejected"

\* C21: the registry dispatches on resolution.type, on "tarball" when the type
\* is absent; for a type without a registered fetcher no fetcher is invoked,
\* the fetch fails and fetchingFiles is rejected, never resolved, and no file
\* is created under node_modules/<pkgName>
C21_Dispatch ==
    /\ []Dispatched
    /\ [][\A i \in Ids :
            Unsupported(i) =>
                \A f \in Files :
                    nodeModules[i][f] = "absent" => nodeModules'[i][f] = "absent"]_vars

\* a resolution of a type without fetcher: fetchingFiles is rejected, no
\* fetcher ran and node_modules/<pkgName> is not there
C21_Witness ==
    \E i \in Ids :
        /\ Unsupported(i)
        /\ fetch[i].failedAt = "awaitFetch"
        /\ Entry(i).fetchingFiles.state = "rejected"
        /\ invocations[FetchTask(i)] = 0
        /\ IsEmpty(nodeModules[i])

\* ------------------------------------------------------------------ properties of the retry of integrity mismatches
\* the attempts j and j + 1 of the download both failed the integrity check
MismatchedTwice(j) ==
    /\ j + 1 <= Len(dl.errors)
    /\ dl.errors[j].kind = "integrity"
    /\ dl.errors[j + 1].kind = "integrity"

\* C22: an attempt that fails the integrity check is retried at most once:
\* after two consecutive integrity mismatches the download has rejected,
\* whatever the retry count
C22_IntegrityRetriedOnce ==
    \A j \in 1 .. MaxRetries :
        MismatchedTwice(j) => /\ dl.pc = "rejected"
                              /\ dl.requests = j + 1

\* ------------------------------------------------------------------ properties of the store index
\* C23: in every state where fetchingFiles is resolved with isNew true, the
\* store index records the entry: it is recorded after the rename and before
\* fetchingFiles resolves
C23_RecordedBeforeResolved ==
    \A i \in Ids :
        (/\ Launched(i)
         /\ Entry(i).fetchingFiles.state = "resolved"
         /\ Entry(i).fetchingFiles.isNew)
            => i \in storeIndex

\* ------------------------------------------------------------------ properties of settling
\* fetchingFiles and fetchingPkg of the identity are settled
FilesAndPkgSettled(i) ==
    /\ Launched(i)
    /\ Settled(Entry(i).fetchingFiles)
    /\ Settled(Entry(i).fetchingPkg)

\* once settled, fetchingFiles and fetchingPkg of the entry are not settled again
SettledForGood(i) ==
    /\ Settled(Entry(i).fetchingFiles) => Entry(i)'.fetchingFiles = Entry(i).fetchingFiles
    /\ Settled(Entry(i).fetchingPkg) => Entry(i)'.fetchingPkg = Entry(i).fetchingPkg

\* the fetch of the identity was given to the queue with the deferred priority
DeferredFetch(i) ==
    /\ Launched(i)
    /\ taskState[FetchTask(i)] # "none"
    /\ priorityLog # <<>>
    /\ priorityLog[Len(priorityLog)] = -1000

\* C24: for every identity in a fetchingLocker, fetchingFiles and fetchingPkg
\* are eventually settled, and a settled one is never settled again, whichever
\* path the fetch takes and whatever the priority of its task
C24_SettleOnce ==
    /\ \A i \in Ids : Launched(i) ~> FilesAndPkgSettled(i)
    /\ [][\A i \in Ids : (Launched(i) /\ Launched(i)') => SettledForGood(i)]_vars

\* after a fresh fetch on the first locker, a refetch on the second one, given
\* to the queue with priority -1000, has settled both futures
C24_Witness ==
    \E i \in Ids :
        /\ lockersUsed = 2
        /\ earlier[i].state = "resolved"
        /\ earlier[i].isNew
        /\ RefetchPath(i)
        /\ DeferredFetch(i)
        /\ FilesAndPkgSettled(i)
        /\ fetch[i].pc = "done"

====
